---- MODULE Spec2Model ----
(***************************************************************************)
(* Model of the TYT/Retevis -> OpenGD77 CSV converter (src/main.py):       *)
(* the format mappers of OpenGD77Converter, the SelectionManager, and the  *)
(* preview editor ContactChannelEditor with its filter, selection and      *)
(* export handlers, driven by OpenGD77GUI.                                 *)
(*                                                                         *)
(* A DataFrame is a sequence of rows; a row is a function from the column  *)
(* name of the source to the cell.  A text cell is a sequence of one-      *)
(* character strings, so that lower-casing, stripping and substring search *)
(* are computed.  A numeric ID cell keeps its dtype: [n, float], because   *)
(* str() of an int64 cell and of a float64 cell differ.                    *)
(***************************************************************************)
EXTENDS Integers, Sequences, FiniteSets, TLC

(***************************************************************************)
(* Bounds of the model.                                                    *)
(***************************************************************************)
\* OpenGD77Converter.MAX_CONTACTS is 1024 in the source (src/main.py:689).
\* Every use of it in the code is a comparison with a count, so the model
\* keeps the comparisons and scales the number down.
MAX_CONTACTS == 2

\* Longest contact file: one row more than the limit, so that the limit is hit.
MaxContactRows == MAX_CONTACTS + 1

\* Longest channel file: more rows than MAX_CONTACTS, so that an unbounded
\* channel selection is told apart from a bounded one.
MaxChannelRows == MAX_CONTACTS + 1

\* Largest total number of rows of a session that loads both files.
MaxBothRows == MAX_CONTACTS

\* Numeric ids run over 0 .. MaxId (0 is the id the DC9AL mapper drops).
MaxId == MAX_CONTACTS + 1

(***************************************************************************)
(* Python and pandas values.                                               *)
(***************************************************************************)
NaN == "NaN"

\* An int64 cell and a float64 cell holding the number n.
IntCell(n) == [n |-> n, float |-> FALSE]

FloatCell(n) == [n |-> n, float |-> TRUE]

\* str() of a numeric cell: "7" for the int 7, "7.0" for the float 7.0.
PyStr(cell) == IF cell.float THEN ToString(cell.n) \o ".0" ELSE ToString(cell.n)

\* The integers whose decimal literal int() is asked to parse in the model.
IntLiterals == 0 .. (MaxId + 1)

\* int(s) succeeds exactly on a decimal integer literal.
IsIntLiteral(s) == \E n \in IntLiterals : ToString(n) = s

\* int(s); a ValueError where IsIntLiteral(s) is false.
PyInt(s) == CHOOSE n \in IntLiterals : ToString(n) = s

\* str.lower() on one character and on a text.
LowerChar(c) == CASE c = "A" -> "a" [] c = "B" -> "b" [] OTHER -> c

Lower(s) == [i \in 1 .. Len(s) |-> LowerChar(s[i])]

\* str.contains(sub) for a text without regex metacharacters.
Contains(s, sub) ==
    \E i \in 0 .. (Len(s) - Len(sub)) :
        \A j \in 1 .. Len(sub) : s[i + j] = sub[j]

RECURSIVE LStrip(_)
LStrip(s) == IF s # <<>> /\ Head(s) = " " THEN LStrip(Tail(s)) ELSE s

RECURSIVE RStrip(_)
RStrip(s) ==
    IF s # <<>> /\ s[Len(s)] = " " THEN RStrip(SubSeq(s, 1, Len(s) - 1)) ELSE s

\* str.strip()
Strip(s) == RStrip(LStrip(s))

\* .str.replace('"', '').str.replace("'", "").str.replace(',', ' ')
RECURSIVE CleanName(_)
CleanName(s) ==
    IF s = <<>> THEN <<>>
    ELSE IF Head(s) \in {"\"", "'"} THEN CleanName(Tail(s))
    ELSE IF Head(s) = "," THEN <<" ">> \o CleanName(Tail(s))
    ELSE <<Head(s)>> \o CleanName(Tail(s))

\* df[mask] is SelectSeq: the rows that satisfy the mask, in their order.

\* drop_duplicates left out: every row is kept.
DropDuplicatesNone(rows, col, seen) == rows

\* drop_duplicates(subset=[col]): the first row of every value of col.
RECURSIVE DropDuplicates(_, _, _)
DropDuplicates(rows, col, seen) ==
    IF rows = <<>> THEN <<>>
    ELSE IF Head(rows)[col].n \in seen
         THEN DropDuplicates(Tail(rows), col, seen)
         ELSE <<Head(rows)>> \o
              DropDuplicates(Tail(rows), col, seen \cup {Head(rows)[col].n})

\* A DataFrame variable of the program: None, or a frame with its rows.
NoneDf == [present |-> FALSE, rows |-> <<>>]

Df(rows) == [present |-> TRUE, rows |-> rows]

(***************************************************************************)
(* Input files, as _read_csv_with_log hands them to the mappers.           *)
(***************************************************************************)
\* No file chosen: the path variable is the empty string.
NoFile == [path |-> "", readable |-> FALSE, cols |-> {}, rows |-> <<>>]

CsvFile(cols, rows) ==
    [path |-> "in.csv", readable |-> TRUE, cols |-> cols, rows |-> rows]

\* A chosen file that no encoding reads: _read_csv_with_log returns None.
UnreadableFile == [path |-> "in.csv", readable |-> FALSE, cols |-> {}, rows |-> <<>>]

TytContactCols == {"Contact Name", "Call Type", "Call ID"}

Dc9alCols == {"Callsign", "Name", "Radio ID"}

TytRow(name, type, id) ==
    ("Contact Name" :> name) @@ ("Call Type" :> type) @@ ("Call ID" :> id)

Dc9alRow(callsign, name, radio) ==
    ("Callsign" :> callsign) @@ ("Name" :> name) @@ ("Radio ID" :> radio)

TytChannelCols ==
    {"Channel Name", "Channel Mode", "RX Frequency(MHz)", "TX Frequency(MHz)",
     "Color Code", "Repeater Slot", "CTCSS/DCS Enc"}

TytChannelRow(name, mode, rx, tx, cc, slot, enc) ==
    ("Channel Name" :> name) @@ ("Channel Mode" :> mode) @@
    ("RX Frequency(MHz)" :> rx) @@ ("TX Frequency(MHz)" :> tx) @@
    ("Color Code" :> cc) @@ ("Repeater Slot" :> slot) @@ ("CTCSS/DCS Enc" :> enc)

(***************************************************************************)
(* OpenGD77Converter: the mappers.                                         *)
(***************************************************************************)
\* df['Call Type'].map({1: 'Group', 2: 'Private'}): NaN for any other value.
CallTypeMap(t) == CASE t = 1 -> "Group" [] t = 2 -> "Private" [] OTHER -> NaN

_convert_tyt_contacts(df) ==
    [i \in 1 .. Len(df) |->
        ("Contact Name" :> df[i]["Contact Name"]) @@
        ("ID" :> IntCell(df[i]["Call ID"])) @@
        ("ID Type" :> CallTypeMap(df[i]["Call Type"])) @@
        ("TS Override" :> "None")]

\* pd.to_numeric(cell, errors='coerce') on one text cell of Radio ID.
ToNumeric(cell) == IF IsIntLiteral(cell) THEN PyInt(cell) ELSE -1

IsNumeric(cell) == IsIntLiteral(cell)

\* The Contact Name the DC9AL mapper builds from Callsign and Name.
Dc9alName(row) ==
    IF row["Name"] # <<NaN>> /\ Strip(row["Name"]) # <<>>
    THEN Strip(Strip(row["Callsign"]) \o <<" ">> \o Strip(row["Name"]))
    ELSE Strip(row["Callsign"])

_convert_dc9al_contacts(df) ==
    LET \* one NaN makes the whole ID column float64; dropna keeps the dtype
        float == \E i \in 1 .. Len(df) : ~IsNumeric(df[i]["Radio ID"])
        all == [i \in 1 .. Len(df) |->
                  ("Contact Name" :> Dc9alName(df[i])) @@
                  ("ID" :> [n |-> ToNumeric(df[i]["Radio ID"]), float |-> float]) @@
                  ("ID Type" :> "Private") @@
                  ("TS Override" :> "None") @@
                  ("isna" :> ~IsNumeric(df[i]["Radio ID"]))]
        notna == SelectSeq(all, LAMBDA r : ~r["isna"])
        positive == SelectSeq(notna, LAMBDA r : r["ID"].n > 0)
        unique == DropDuplicates(positive, "ID", {})
    IN  [i \in 1 .. Len(unique) |->
            ("Contact Name" :> CleanName(unique[i]["Contact Name"])) @@
            ("ID" :> unique[i]["ID"]) @@
            ("ID Type" :> unique[i]["ID Type"]) @@
            ("TS Override" :> unique[i]["TS Override"])]

\* convert_contacts with the DC9AL signature tested first.
convert_contacts_dc9al_first(file) ==
    IF ~file.readable THEN NoneDf
    ELSE IF {"Radio ID", "Callsign"} \subseteq file.cols
         THEN IF "Name" \in file.cols
              THEN Df(_convert_dc9al_contacts(file.rows)) ELSE NoneDf
    ELSE IF {"Call Type", "Call ID"} \subseteq file.cols
         THEN IF "Contact Name" \in file.cols
              THEN Df(_convert_tyt_contacts(file.rows)) ELSE NoneDf
    ELSE NoneDf

\* None when the file is unreadable, has no known signature, or a column the
\* chosen mapper reads is missing (the KeyError is caught).
convert_contacts(file) ==
    IF ~file.readable THEN NoneDf
    ELSE IF {"Call Type", "Call ID"} \subseteq file.cols
         THEN IF "Contact Name" \in file.cols
              THEN Df(_convert_tyt_contacts(file.rows)) ELSE NoneDf
    ELSE IF {"Radio ID", "Callsign"} \subseteq file.cols
         THEN IF "Name" \in file.cols
              THEN Df(_convert_dc9al_contacts(file.rows)) ELSE NoneDf
    ELSE NoneDf

\* The mode map with every mode taken for Digital.
ChannelModeMapAllDigital(m) == "Digital"

ChannelModeMap(m) == CASE m = 1 -> "Analogue" [] m = 2 -> "Digital" [] OTHER -> NaN

\* convert_channels with the Colour Code lambda not testing the mode.
convert_channels_colour_any_mode(file) ==
    IF ~file.readable \/ ~(TytChannelCols \subseteq file.cols) THEN NoneDf
    ELSE Df([i \in 1 .. Len(file.rows) |->
            LET row == file.rows[i] IN
            ("Channel Number" :> IntCell(i)) @@
            ("Channel Name" :> row["Channel Name"]) @@
            ("Channel Type" :> ChannelModeMap(row["Channel Mode"])) @@
            ("Rx Frequency" :> row["RX Frequency(MHz)"]) @@
            ("Tx Frequency" :> row["TX Frequency(MHz)"]) @@
            ("Bandwidth (kHz)" :> IF row["Channel Mode"] = 1 THEN "25" ELSE "") @@
            ("Colour Code" :>
                IF row["Color Code"] > 0
                THEN ToString(row["Color Code"]) ELSE "") @@
            ("Timeslot" :>
                IF row["Channel Mode"] = 2 /\ row["Repeater Slot"] > 0
                THEN ToString(row["Repeater Slot"]) ELSE "") @@
            ("RX Tone" :> "") @@
            ("TX Tone" :>
                IF row["CTCSS/DCS Enc"] # 0
                THEN ToString(row["CTCSS/DCS Enc"]) ELSE "")])

convert_channels(file) ==
    IF ~file.readable \/ ~(TytChannelCols \subseteq file.cols) THEN NoneDf
    ELSE Df([i \in 1 .. Len(file.rows) |->
            LET row == file.rows[i] IN
            ("Channel Number" :> IntCell(i)) @@
            ("Channel Name" :> row["Channel Name"]) @@
            ("Channel Type" :> ChannelModeMap(row["Channel Mode"])) @@
            ("Rx Frequency" :> row["RX Frequency(MHz)"]) @@
            ("Tx Frequency" :> row["TX Frequency(MHz)"]) @@
            ("Bandwidth (kHz)" :> IF row["Channel Mode"] = 1 THEN "25" ELSE "") @@
            ("Colour Code" :>
                IF row["Channel Mode"] = 2 /\ row["Color Code"] > 0
                THEN ToString(row["Color Code"]) ELSE "") @@
            ("Timeslot" :>
                IF row["Channel Mode"] = 2 /\ row["Repeater Slot"] > 0
                THEN ToString(row["Repeater Slot"]) ELSE "") @@
            ("RX Tone" :> "") @@
            ("TX Tone" :>
                IF row["CTCSS/DCS Enc"] # 0
                THEN ToString(row["CTCSS/DCS Enc"]) ELSE "")])

(***************************************************************************)
(* SelectionManager: the set selected_ids and its methods.                 *)
(***************************************************************************)
\* toggle_selection that only ever adds.
toggle_selection_add_only(selected_ids, id_str) == selected_ids \cup {id_str}

toggle_selection(selected_ids, id_str) ==
    IF id_str \in selected_ids THEN selected_ids \ {id_str}
    ELSE selected_ids \cup {id_str}

\* id_list holds numeric cells; every member is passed through str().
select_all(selected_ids, id_list) == selected_ids \cup {PyStr(c) : c \in id_list}

select_only(selected_ids, id_list) == {PyStr(c) : c \in id_list}

deselect_all(selected_ids) == {}

is_selected(selected_ids, id_str) == id_str \in selected_ids

get_selected_from_filtered(selected_ids, filtered_ids) ==
    selected_ids \cap {PyStr(c) : c \in filtered_ids}

(***************************************************************************)
(* The state of one run of the program.                                    *)
(***************************************************************************)
VARIABLES
    phase,                  \* "main", "editor", "exported", "cancelled"
    contacts_file,          \* OpenGD77GUI.contacts_file, with the file it names
    channels_file,          \* OpenGD77GUI.channels_file, with the file it names
    original_contacts_df,   \* ContactChannelEditor.original_contacts_df
    original_channels_df,   \* ContactChannelEditor.original_channels_df
    contacts_df,            \* the filtered view of the contacts
    channels_df,            \* the filtered view of the channels
    contacts_search_var,
    contacts_filter_var,
    channels_search_var,
    channels_filter_var,
    contact_selection,      \* contact_selection.selected_ids
    channel_selection,      \* channel_selection.selected_ids
    labels,                 \* the texts update_counts last wrote
    messagebox,             \* the dialog the last handler showed, "" for none
    selected_contacts_df,   \* the frames import_selected hands to the parent
    selected_channels_df,
    Contacts_csv,           \* what the output paths hold
    Channels_csv,
    event,                  \* the handler that ran last, and its argument
    limit_hit               \* a toggle was rejected at the limit earlier on

vars ==
    <<phase, contacts_file, channels_file, original_contacts_df,
      original_channels_df, contacts_df, channels_df, contacts_search_var,
      contacts_filter_var, channels_search_var, channels_filter_var,
      contact_selection, channel_selection, labels, messagebox,
      selected_contacts_df, selected_channels_df, Contacts_csv, Channels_csv,
      event, limit_hit>>

fileVars == <<contacts_file, channels_file>>

contactViewVars == <<contacts_df, contacts_search_var, contacts_filter_var>>

channelViewVars == <<channels_df, channels_search_var, channels_filter_var>>

exportVars ==
    <<selected_contacts_df, selected_channels_df, Contacts_csv, Channels_csv>>

originalVars == <<original_contacts_df, original_channels_df>>

Event(op, arg) == [op |-> op, arg |-> arg]

\* What an output path holds: what it held before the run, a complete file,
\* or the part of a file written before to_csv failed.
PreExisting == [kind |-> "pre", rows |-> <<>>]

CompleteFile(rows) == [kind |-> "complete", rows |-> rows]

PartialFile == [kind |-> "partial", rows |-> <<>>]

(***************************************************************************)
(* ContactChannelEditor: which widgets the constructor builds.             *)
(*                                                                         *)
(* setup_contacts_tab ends in populate_contacts_tree and update_counts.    *)
(* With both frames present update_counts then retitles notebook tab 1,    *)
(* which does not exist yet: Tk raises, the constructor is left, and the   *)
(* channels tab and the bottom buttons are never built.                    *)
(***************************************************************************)
ContactsTreeBuilt(cdf, chdf) == cdf.present

ChannelsTreeBuilt(cdf, chdf) == chdf.present /\ ~cdf.present

BottomButtonsBuilt(cdf, chdf) == ~(cdf.present /\ chdf.present)

contacts_tree == ContactsTreeBuilt(original_contacts_df, original_channels_df)

channels_tree == ChannelsTreeBuilt(original_contacts_df, original_channels_df)

bottom_buttons == BottomButtonsBuilt(original_contacts_df, original_channels_df)

\* The cells of one column of a frame, as a set.
Column(df, col) == {df.rows[i][col] : i \in 1 .. Len(df.rows)}

NoLabel == [text |-> "", n |-> 0, total |-> 0]

SelectedLabel(in_filter, total) ==
    IF total > in_filter
    THEN [text |-> "Selected in filter / Total selected",
          n |-> in_filter, total |-> total]
    ELSE [text |-> "Selected for import", n |-> in_filter, total |-> 0]

\* The labels after update_counts ran on the given frames and selections.
update_counts(ocdf, ochdf, cdf, chdf, csel, chsel) ==
    LET filtered_contact_ids == IF cdf.present THEN Column(cdf, "ID") ELSE {}
        filtered_channel_ids ==
            IF chdf.present THEN Column(chdf, "Channel Number") ELSE {}
        selected_filtered_contacts ==
            get_selected_from_filtered(csel, filtered_contact_ids)
        selected_filtered_channels ==
            get_selected_from_filtered(chsel, filtered_channel_ids)
        shown_contacts == Cardinality({PyStr(c) : c \in filtered_contact_ids})
        shown_channels == Cardinality({PyStr(c) : c \in filtered_channel_ids})
    IN  [contacts_filter_label |->
            IF ContactsTreeBuilt(ocdf, ochdf)
            THEN [text |-> "Showing", n |-> shown_contacts, total |-> 0]
            ELSE NoLabel,
         contacts_selected_label |->
            IF ContactsTreeBuilt(ocdf, ochdf)
            THEN SelectedLabel(Cardinality(selected_filtered_contacts),
                               Cardinality(csel))
            ELSE NoLabel,
         channels_filter_label |->
            IF ChannelsTreeBuilt(ocdf, ochdf)
            THEN [text |-> "Showing", n |-> shown_channels, total |-> 0]
            ELSE NoLabel,
         channels_selected_label |->
            IF ChannelsTreeBuilt(ocdf, ochdf)
            THEN SelectedLabel(Cardinality(selected_filtered_channels),
                               Cardinality(chsel))
            ELSE NoLabel,
         selection_label |->
            IF BottomButtonsBuilt(ocdf, ochdf)
            THEN [text |-> "Ready to import", n |-> Cardinality(csel),
                  total |-> Cardinality(chsel)]
            ELSE NoLabel]

NoLabels ==
    [contacts_filter_label |-> NoLabel, contacts_selected_label |-> NoLabel,
     channels_filter_label |-> NoLabel, channels_selected_label |-> NoLabel,
     selection_label |-> NoLabel]

\* populate_*_tree and update_counts after a handler changed the state.
Refresh ==
    labels' = update_counts(original_contacts_df', original_channels_df',
                            contacts_df', channels_df',
                            contact_selection', channel_selection')

(***************************************************************************)
(* The input files the runs are checked on.                                *)
(***************************************************************************)
\* All sequences over S of length at most n.
SeqsUpTo(S, n) == UNION {[1 .. k -> S] : k \in 0 .. n}

\* The rows of the editor runs: a row kind per id, so that the search text
\* and the type filter each split the rows, and neither follows the other.
NameOfId(id) == IF id % 2 = 1 THEN <<"A", "b">> ELSE <<"b">>

CallTypeOfId(id) == IF id = 1 THEN 1 ELSE 2

EditorTytRows == {TytRow(NameOfId(id), CallTypeOfId(id), id) : id \in 1 .. MaxId}

\* Radio ID cells as read_csv hands them over once one cell is not a number:
\* texts, here the literals of some ids and one text that is no number.
RadioIdCells == {ToString(n) : n \in 1 .. MAX_CONTACTS} \cup {"abc"}

EditorDc9alRows ==
    {Dc9alRow(<<"A">>, IF r = "2" THEN <<"b">> ELSE <<NaN>>, r) : r \in RadioIdCells}

ContactFiles ==
    {CsvFile(TytContactCols, rows) : rows \in SeqsUpTo(EditorTytRows, MaxContactRows)}
    \cup {CsvFile(Dc9alCols, rows) : rows \in SeqsUpTo(EditorDc9alRows, MaxContactRows)}
    \cup {UnreadableFile, CsvFile({"Name"}, <<>>)}

\* Channel rows: two rows share a name, and two share a mode.
EditorChannelRows ==
    {TytChannelRow(<<"A", "b">>, 1, 145, 145, 1, 1, 0),
     TytChannelRow(<<"b">>, 2, 433, 438, 1, 2, 0),
     TytChannelRow(<<"A", "b">>, 2, 433, 433, 0, 1, 0)}

ChannelFiles ==
    {CsvFile(TytChannelCols, rows) : rows \in SeqsUpTo(EditorChannelRows, MaxChannelRows)}
    \cup {UnreadableFile}

\* The two files of one run: when both hold rows, MaxBothRows rows in all.
PairOk(cf, chf) ==
    cf.rows = <<>> \/ chf.rows = <<>> \/ Len(cf.rows) + Len(chf.rows) <= MaxBothRows

SearchTexts == {<<>>, <<"A">>}

ContactFilterValues == {"All", "Group", "Private"}

ChannelFilterValues == {"All", "Analogue", "Digital"}

SaveOutcomes == {"saved", "open failed", "write failed"}

(***************************************************************************)
(* OpenGD77GUI: the main window.                                           *)
(***************************************************************************)
Init ==
    /\ phase = "main"
    /\ contacts_file = NoFile
    /\ channels_file = NoFile
    /\ original_contacts_df = NoneDf
    /\ original_channels_df = NoneDf
    /\ contacts_df = NoneDf
    /\ channels_df = NoneDf
    /\ contacts_search_var = <<>>
    /\ contacts_filter_var = "All"
    /\ channels_search_var = <<>>
    /\ channels_filter_var = "All"
    /\ contact_selection = {}
    /\ channel_selection = {}
    /\ labels = NoLabels
    /\ messagebox = ""
    /\ selected_contacts_df = NoneDf
    /\ selected_channels_df = NoneDf
    /\ Contacts_csv = PreExisting
    /\ Channels_csv = PreExisting
    /\ event = Event("", "")
    /\ limit_hit = FALSE

editorVars ==
    <<original_contacts_df, original_channels_df, contacts_df, channels_df,
      contacts_search_var, contacts_filter_var, channels_search_var,
      channels_filter_var, contact_selection, channel_selection, labels,
      limit_hit>>

browse_contacts(file) ==
    /\ phase = "main"
    /\ contacts_file' = file
    /\ event' = Event("browse_contacts", "")
    /\ messagebox' = ""
    /\ UNCHANGED <<phase, channels_file, editorVars, exportVars>>

browse_channels(file) ==
    /\ phase = "main"
    /\ channels_file' = file
    /\ event' = Event("browse_channels", "")
    /\ messagebox' = ""
    /\ UNCHANGED <<phase, contacts_file, editorVars, exportVars>>

\* convert_files opening the editor only when every chosen file converted.
convert_files_all_or_nothing ==
    /\ phase = "main"
    /\ event' = Event("convert_files", "")
    /\ UNCHANGED <<fileVars, exportVars, limit_hit>>
    /\ LET cdf == IF contacts_file.path # ""
                  THEN convert_contacts(contacts_file) ELSE NoneDf
           chdf == IF channels_file.path # ""
                   THEN convert_channels(channels_file) ELSE NoneDf
       IN  IF contacts_file.path = "" /\ channels_file.path = ""
           THEN /\ messagebox' = "Error: Select at least one input file!"
                /\ UNCHANGED <<phase, originalVars, contactViewVars,
                               channelViewVars, contact_selection,
                               channel_selection, labels>>
           ELSE IF /\ cdf.present \/ chdf.present
                   /\ contacts_file.path # "" => cdf.present
                   /\ channels_file.path # "" => chdf.present
           THEN /\ phase' = "editor"
                /\ original_contacts_df' = cdf
                /\ original_channels_df' = chdf
                /\ contacts_df' = cdf
                /\ channels_df' = chdf
                /\ contact_selection' = {}
                /\ channel_selection' = {}
                /\ UNCHANGED <<contacts_search_var, contacts_filter_var,
                               channels_search_var, channels_filter_var>>
                /\ Refresh
                /\ messagebox' = IF BottomButtonsBuilt(cdf, chdf) THEN ""
                                 ELSE "Error: Preview failed"
           ELSE /\ messagebox' = "Error: No valid data to preview!"
                /\ UNCHANGED <<phase, originalVars, contactViewVars,
                               channelViewVars, contact_selection,
                               channel_selection, labels>>

\* Preview & Convert: the mappers run and ContactChannelEditor is constructed.
convert_files ==
    /\ phase = "main"
    /\ event' = Event("convert_files", "")
    /\ UNCHANGED <<fileVars, exportVars, limit_hit>>
    /\ LET cdf == IF contacts_file.path # ""
                  THEN convert_contacts(contacts_file) ELSE NoneDf
           chdf == IF channels_file.path # ""
                   THEN convert_channels(channels_file) ELSE NoneDf
       IN  IF contacts_file.path = "" /\ channels_file.path = ""
           THEN /\ messagebox' = "Error: Select at least one input file!"
                /\ UNCHANGED <<phase, originalVars, contactViewVars,
                               channelViewVars, contact_selection,
                               channel_selection, labels>>
           ELSE IF cdf.present \/ chdf.present
           THEN /\ phase' = "editor"
                /\ original_contacts_df' = cdf
                /\ original_channels_df' = chdf
                /\ contacts_df' = cdf
                /\ channels_df' = chdf
                /\ contact_selection' = {}
                /\ channel_selection' = {}
                /\ UNCHANGED <<contacts_search_var, contacts_filter_var,
                               channels_search_var, channels_filter_var>>
                /\ Refresh
                /\ messagebox' = IF BottomButtonsBuilt(cdf, chdf) THEN ""
                                 ELSE "Error: Preview failed"
           ELSE /\ messagebox' = "Error: No valid data to preview!"
                /\ UNCHANGED <<phase, originalVars, contactViewVars,
                               channelViewVars, contact_selection,
                               channel_selection, labels>>

(***************************************************************************)
(* ContactChannelEditor: the view.                                         *)
(***************************************************************************)
\* FilteredContacts with the type test applied for "All" as well.
FilteredContactsNoAll(original, search_var, filter_type) ==
    LET search_text == Lower(search_var)
        by_name == IF search_text # <<>>
                   THEN SelectSeq(original.rows,
                            LAMBDA r : Contains(Lower(r["Contact Name"]), search_text))
                   ELSE original.rows
    IN  Df(SelectSeq(by_name, LAMBDA r : r["ID Type"] = filter_type))

\* The frame filter_contacts assigns to contacts_df.
FilteredContacts(original, search_var, filter_type) ==
    LET search_text == Lower(search_var)
        by_name == IF search_text # <<>>
                   THEN SelectSeq(original.rows,
                            LAMBDA r : Contains(Lower(r["Contact Name"]), search_text))
                   ELSE original.rows
        by_type == IF filter_type # "All"
                   THEN SelectSeq(by_name, LAMBDA r : r["ID Type"] = filter_type)
                   ELSE by_name
    IN  Df(by_type)

FilteredChannels(original, search_var, filter_type) ==
    LET search_text == Lower(search_var)
        by_name == IF search_text # <<>>
                   THEN SelectSeq(original.rows,
                            LAMBDA r : Contains(Lower(r["Channel Name"]), search_text))
                   ELSE original.rows
        by_type == IF filter_type # "All"
                   THEN SelectSeq(by_name, LAMBDA r : r["Channel Type"] = filter_type)
                   ELSE by_name
    IN  Df(by_type)

\* filter_contacts that also narrows the selection to the rows in view.
filter_contacts_select_only(search_var, filter_type) ==
    /\ phase = "editor"
    /\ contacts_tree
    /\ search_var = contacts_search_var \/ filter_type = contacts_filter_var
    /\ contacts_search_var' = search_var
    /\ contacts_filter_var' = filter_type
    /\ contacts_df' = FilteredContacts(original_contacts_df, search_var, filter_type)
    /\ contact_selection' =
           get_selected_from_filtered(contact_selection, Column(contacts_df', "ID"))
    /\ event' = Event("filter_contacts", "")
    /\ messagebox' = ""
    /\ UNCHANGED <<phase, fileVars, originalVars, channelViewVars,
                   channel_selection, exportVars, limit_hit>>
    /\ Refresh

\* The search entry or the type combobox of the contacts tab changes (one of
\* the two at a time) and filter_contacts runs.
filter_contacts(search_var, filter_type) ==
    /\ phase = "editor"
    /\ contacts_tree
    /\ search_var = contacts_search_var \/ filter_type = contacts_filter_var
    /\ contacts_search_var' = search_var
    /\ contacts_filter_var' = filter_type
    /\ contacts_df' = FilteredContacts(original_contacts_df, search_var, filter_type)
    /\ event' = Event("filter_contacts", "")
    /\ messagebox' = ""
    /\ UNCHANGED <<phase, fileVars, originalVars, channelViewVars,
                   contact_selection, channel_selection, exportVars, limit_hit>>
    /\ Refresh

filter_channels(search_var, filter_type) ==
    /\ phase = "editor"
    /\ channels_tree
    /\ search_var = channels_search_var \/ filter_type = channels_filter_var
    /\ channels_search_var' = search_var
    /\ channels_filter_var' = filter_type
    /\ channels_df' = FilteredChannels(original_channels_df, search_var, filter_type)
    /\ event' = Event("filter_channels", "")
    /\ messagebox' = ""
    /\ UNCHANGED <<phase, fileVars, originalVars, contactViewVars,
                   contact_selection, channel_selection, exportVars, limit_hit>>
    /\ Refresh

(***************************************************************************)
(* ContactChannelEditor: the selection handlers.                           *)
(***************************************************************************)
\* toggle_contact_selection that keeps rejecting once the limit was hit.
toggle_contact_selection_sticky(item) ==
    /\ phase = "editor"
    /\ contacts_tree
    /\ item \in 1 .. Len(contacts_df.rows)
    /\ UNCHANGED <<phase, fileVars, originalVars, contactViewVars,
                   channelViewVars, channel_selection, exportVars>>
    /\ LET contact_id_str == PyStr(contacts_df.rows[item]["ID"])
       IN  /\ event' = Event("toggle_contact_selection", contact_id_str)
           /\ IF /\ ~is_selected(contact_selection, contact_id_str)
                 /\ (limit_hit \/ Cardinality(contact_selection) >= MAX_CONTACTS)
              THEN /\ messagebox' = "Limit Reached"
                   /\ limit_hit' = TRUE
                   /\ UNCHANGED <<contact_selection, labels>>
              ELSE /\ contact_selection' =
                        toggle_selection(contact_selection, contact_id_str)
                   /\ messagebox' = ""
                   /\ UNCHANGED limit_hit
                   /\ Refresh

\* item is a row of the contacts tree, which shows the rows of contacts_df;
\* its second value is the ID cell, and str() of it is the key.
toggle_contact_selection(item) ==
    /\ phase = "editor"
    /\ contacts_tree
    /\ item \in 1 .. Len(contacts_df.rows)
    /\ UNCHANGED <<phase, fileVars, originalVars, contactViewVars,
                   channelViewVars, channel_selection, exportVars>>
    /\ LET contact_id_str == PyStr(contacts_df.rows[item]["ID"])
       IN  /\ event' = Event("toggle_contact_selection", contact_id_str)
           /\ IF /\ ~is_selected(contact_selection, contact_id_str)
                 /\ Cardinality(contact_selection) >= MAX_CONTACTS
              THEN /\ messagebox' = "Limit Reached"
                   /\ limit_hit' = TRUE
                   /\ UNCHANGED <<contact_selection, labels>>
              ELSE /\ contact_selection' =
                        toggle_selection(contact_selection, contact_id_str)
                   /\ messagebox' = ""
                   /\ UNCHANGED limit_hit
                   /\ Refresh

\* item is a row of the channels tree; the handler reads the row's name and
\* takes the Channel Number of the first row of channels_df with that name.
toggle_channel_selection(item) ==
    /\ phase = "editor"
    /\ channels_tree
    /\ item \in 1 .. Len(channels_df.rows)
    /\ LET channel_name == channels_df.rows[item]["Channel Name"]
           channel_row == SelectSeq(channels_df.rows,
                              LAMBDA r : r["Channel Name"] = channel_name)
           channel_id_str == PyStr(channel_row[1]["Channel Number"])
       IN  /\ event' = Event("toggle_channel_selection",
                             PyStr(channels_df.rows[item]["Channel Number"]))
           /\ channel_selection' =
                  toggle_selection(channel_selection, channel_id_str)
    /\ messagebox' = ""
    /\ UNCHANGED <<phase, fileVars, originalVars, contactViewVars,
                   channelViewVars, contact_selection, exportVars, limit_hit>>
    /\ Refresh

\* The loop of select_all_contacts without its limit test.
AddVisibleContactsUnbounded(selected_ids, visible_ids) ==
    selected_ids \cup {visible_ids[i] : i \in 1 .. Len(visible_ids)}

\* The loop of select_all_contacts: add in view order while below the limit.
RECURSIVE AddVisibleContacts(_, _)
AddVisibleContacts(selected_ids, visible_ids) ==
    IF visible_ids = <<>> THEN selected_ids
    ELSE IF Cardinality(selected_ids) < MAX_CONTACTS
         THEN AddVisibleContacts(selected_ids \cup {Head(visible_ids)},
                                 Tail(visible_ids))
         ELSE selected_ids

VisibleIds(df, col) == [i \in 1 .. Len(df.rows) |-> PyStr(df.rows[i][col])]

\* select_all_contacts starting from an empty store instead of adding.
select_all_contacts_replacing ==
    /\ phase = "editor"
    /\ contacts_tree
    /\ contact_selection' = AddVisibleContacts({}, VisibleIds(contacts_df, "ID"))
    /\ event' = Event("select_all_contacts", "")
    /\ messagebox' = ""
    /\ UNCHANGED <<phase, fileVars, originalVars, contactViewVars,
                   channelViewVars, channel_selection, exportVars, limit_hit>>
    /\ Refresh

select_all_contacts ==
    /\ phase = "editor"
    /\ contacts_tree
    /\ contact_selection' =
           AddVisibleContacts(contact_selection, VisibleIds(contacts_df, "ID"))
    /\ event' = Event("select_all_contacts", "")
    /\ messagebox' = ""
    /\ UNCHANGED <<phase, fileVars, originalVars, contactViewVars,
                   channelViewVars, channel_selection, exportVars, limit_hit>>
    /\ Refresh

deselect_all_contacts ==
    /\ phase = "editor"
    /\ contacts_tree
    /\ contact_selection' = deselect_all(contact_selection)
    /\ event' = Event("deselect_all_contacts", "")
    /\ messagebox' = ""
    /\ UNCHANGED <<phase, fileVars, originalVars, contactViewVars,
                   channelViewVars, channel_selection, exportVars, limit_hit>>
    /\ Refresh

select_all_channels ==
    /\ phase = "editor"
    /\ channels_tree
    /\ channel_selection' =
           channel_selection \cup
           {VisibleIds(channels_df, "Channel Number")[i] :
               i \in 1 .. Len(channels_df.rows)}
    /\ event' = Event("select_all_channels", "")
    /\ messagebox' = ""
    /\ UNCHANGED <<phase, fileVars, originalVars, contactViewVars,
                   channelViewVars, contact_selection, exportVars, limit_hit>>
    /\ Refresh

deselect_all_channels ==
    /\ phase = "editor"
    /\ channels_tree
    /\ channel_selection' = deselect_all(channel_selection)
    /\ event' = Event("deselect_all_channels", "")
    /\ messagebox' = ""
    /\ UNCHANGED <<phase, fileVars, originalVars, contactViewVars,
                   channelViewVars, contact_selection, exportVars, limit_hit>>
    /\ Refresh

\* The Cancel button, or the window manager closing the editor window.
cancel_editor ==
    /\ phase = "editor"
    /\ phase' = "cancelled"
    /\ event' = Event("cancel_editor", "")
    /\ messagebox' = ""
    /\ UNCHANGED <<fileVars, editorVars, exportVars>>

(***************************************************************************)
(* Export: import_selected, continue_conversion_with_selection, save_csv.  *)
(***************************************************************************)
\* SelectedRows reading the filtered view instead of the original frame.
SelectedRowsFromView(original, selected_global, col) ==
    LET selected_ids_int == {PyInt(id_str) : id_str \in selected_global}
        view == IF col = "ID" THEN contacts_df ELSE channels_df
    IN  DropDuplicates(
            SelectSeq(view.rows, LAMBDA r : r[col].n \in selected_ids_int),
            col, {})

\* SelectedRows without its drop_duplicates.
SelectedRowsKeepDuplicates(original, selected_global, col) ==
    LET selected_ids_int == {PyInt(id_str) : id_str \in selected_global}
    IN  SelectSeq(original.rows, LAMBDA r : r[col].n \in selected_ids_int)

\* The frame import_selected builds for one record kind: the rows of the
\* original frame whose key is among the int() of the selected ids, in the
\* order of the original frame, then drop_duplicates on the key.  The list
\* of ids is sorted in the code, but isin() reads it as a set.
SelectedRows(original, selected_global, col) ==
    LET selected_ids_int == {PyInt(id_str) : id_str \in selected_global}
    IN  DropDuplicates(
            SelectSeq(original.rows, LAMBDA r : r[col].n \in selected_ids_int),
            col, {})

\* What the output path holds after save_csv: to_csv writes to the path
\* itself, so a failure after the open leaves the part written so far.
save_csv(dataframe, before, outcome) ==
    CASE outcome = "saved" -> CompleteFile(dataframe.rows)
      [] outcome = "open failed" -> before
      [] OTHER -> PartialFile

\* The test written as "is None": never true of a set.
NothingSelectedIsNone(selected_contacts_global, selected_channels_global) == FALSE

\* "if not selected_contacts_global and not selected_channels_global"
NothingSelected(selected_contacts_global, selected_channels_global) ==
    selected_contacts_global = {} /\ selected_channels_global = {}

\* Import Selected.  With the frames built the editor window is destroyed
\* and continue_conversion_with_selection saves them; it reports success
\* whatever save_csv returned.
import_selected ==
    /\ phase = "editor"
    /\ bottom_buttons
    /\ event' = Event("import_selected", "")
    /\ UNCHANGED <<fileVars, editorVars>>
    /\ IF NothingSelected(contact_selection, channel_selection)
       THEN /\ messagebox' = "No Selection"
            /\ UNCHANGED <<phase, exportVars>>
       ELSE IF \E id_str \in contact_selection \cup channel_selection :
                   ~IsIntLiteral(id_str)
       THEN \* int(id_str) raises ValueError, caught by import_selected
            /\ messagebox' = "Error: Failed to import selection"
            /\ UNCHANGED <<phase, exportVars>>
       ELSE /\ phase' = "exported"
            /\ selected_contacts_df' =
                   IF contact_selection # {}
                   THEN Df(SelectedRows(original_contacts_df, contact_selection, "ID"))
                   ELSE NoneDf
            /\ selected_channels_df' =
                   IF channel_selection # {}
                   THEN Df(SelectedRows(original_channels_df, channel_selection,
                                        "Channel Number"))
                   ELSE NoneDf
            /\ IF selected_contacts_df'.present
               THEN \E outcome \in SaveOutcomes :
                        Contacts_csv' =
                            save_csv(selected_contacts_df', Contacts_csv, outcome)
               ELSE UNCHANGED Contacts_csv
            /\ IF selected_channels_df'.present
               THEN \E outcome \in SaveOutcomes :
                        Channels_csv' =
                            save_csv(selected_channels_df', Channels_csv, outcome)
               ELSE UNCHANGED Channels_csv
            /\ messagebox' = "Success"

(***************************************************************************)
(* The specification: one run of the program, from the main window through *)
(* one preview editor to its export or cancellation.                       *)
(***************************************************************************)
Next ==
    \/ \E file \in ContactFiles \cup {NoFile} :
           PairOk(file, channels_file) /\ browse_contacts(file)
    \/ \E file \in ChannelFiles \cup {NoFile} :
           PairOk(contacts_file, file) /\ browse_channels(file)
    \/ convert_files
    \/ \E search_var \in SearchTexts, filter_type \in ContactFilterValues :
           filter_contacts(search_var, filter_type)
    \/ \E search_var \in SearchTexts, filter_type \in ChannelFilterValues :
           filter_channels(search_var, filter_type)
    \/ \E item \in 1 .. MaxContactRows : toggle_contact_selection(item)
    \/ \E item \in 1 .. MaxChannelRows : toggle_channel_selection(item)
    \/ select_all_contacts
    \/ deselect_all_contacts
    \/ select_all_channels
    \/ deselect_all_channels
    \/ import_selected
    \/ cancel_editor

Spec == Init /\ [][Next]_vars

(***************************************************************************)
(* The mappers alone, on a wider set of input files: files are chosen and  *)
(* converted, and the run is not followed into the editor.                 *)
(***************************************************************************)
MaxMapRows == 2

MapTytRows ==
    {TytRow(<<"A", "b">>, t, id) : t \in 1 .. 3, id \in 0 .. MaxMapRows}

MapDc9alRows ==
    {Dc9alRow(<<"A", " ">>, name, r) :
        name \in {<<NaN>>, <<" ">>, <<"b", ",">>},
        r \in {ToString(n) : n \in 0 .. MaxMapRows} \cup {"abc"}}

\* A row of a file that carries the columns of both dialects: the two
\* mappers give it different IDs and different ID Types.
MapBothRow == TytRow(<<"A", "b">>, 1, 2) @@ Dc9alRow(<<"A">>, <<NaN>>, "1")

\* Column sets around the two signatures: both complete, the TYT signature
\* with one column short, and the TYT signature without Contact Name.
MapBothCols ==
    {TytContactCols \cup Dc9alCols,
     Dc9alCols \cup {"Contact Name", "Call Type"},
     Dc9alCols \cup {"Contact Name", "Call ID"},
     Dc9alCols \cup {"Call Type", "Call ID"},
     {"Contact Name", "Call Type", "Radio ID"}}

MapBothFiles == {CsvFile(cols, <<MapBothRow>>) : cols \in MapBothCols}

MapContactFiles ==
    {CsvFile(TytContactCols, rows) : rows \in SeqsUpTo(MapTytRows, MaxMapRows)}
    \cup {CsvFile(Dc9alCols, rows) : rows \in SeqsUpTo(MapDc9alRows, MaxMapRows)}
    \cup MapBothFiles
    \cup {UnreadableFile, CsvFile({"Name"}, <<>>)}

MapChannelFiles ==
    {CsvFile(TytChannelCols, rows) : rows \in SeqsUpTo(EditorChannelRows, 1)}
    \cup {UnreadableFile}

\* Each file is chosen at most once in a run.
NextMap ==
    \/ \E file \in MapContactFiles :
           contacts_file = NoFile /\ browse_contacts(file)
    \/ \E file \in MapChannelFiles :
           channels_file = NoFile /\ browse_channels(file)
    \/ convert_files

SpecMap == Init /\ [][NextMap]_vars

(***************************************************************************)
(* The channel mapper alone, on channel files whose rows vary in every     *)
(* field the mapping reads.                                                *)
(***************************************************************************)
MapChannelRows ==
    {TytChannelRow(IF rx = 145 THEN <<"A">> ELSE <<"b">>, mode, rx,
                   rx + 5 * (mode - 1), cc, slot, 0) :
        mode \in 1 .. 3, rx \in {145, 433}, cc \in 0 .. 1, slot \in 0 .. 1}

MapWideChannelFiles ==
    {CsvFile(TytChannelCols, rows) : rows \in SeqsUpTo(MapChannelRows, MaxMapRows)}

NextChannels ==
    \/ \E file \in MapWideChannelFiles :
           channels_file = NoFile /\ browse_channels(file)
    \/ convert_files

SpecChannels == Init /\ [][NextChannels]_vars

(***************************************************************************)
(* The SelectionManager alone: the contact store, called by any client     *)
(* with any list of ids.                                                   *)
(***************************************************************************)
StoreIdCells == {IntCell(n) : n \in 1 .. MaxId} \cup {FloatCell(n) : n \in 1 .. MaxId}

storeFrame ==
    <<phase, fileVars, originalVars, contactViewVars, channelViewVars,
      channel_selection, labels, exportVars, limit_hit>>

store_toggle_selection(id_val) ==
    /\ contact_selection' = toggle_selection(contact_selection, PyStr(id_val))
    /\ event' = Event("toggle_selection", PyStr(id_val))
    /\ messagebox' = ""
    /\ UNCHANGED storeFrame

store_select_all(id_list) ==
    /\ contact_selection' = select_all(contact_selection, id_list)
    /\ event' = Event("select_all", "")
    /\ messagebox' = ""
    /\ UNCHANGED storeFrame

store_select_only(id_list) ==
    /\ contact_selection' = select_only(contact_selection, id_list)
    /\ event' = Event("select_only", "")
    /\ messagebox' = ""
    /\ UNCHANGED storeFrame

store_deselect_all ==
    /\ contact_selection' = deselect_all(contact_selection)
    /\ event' = Event("deselect_all", "")
    /\ messagebox' = ""
    /\ UNCHANGED storeFrame

NextStore ==
    \/ \E id_val \in StoreIdCells : store_toggle_selection(id_val)
    \/ \E id_list \in SUBSET StoreIdCells : store_select_all(id_list)
    \/ \E id_list \in SUBSET StoreIdCells : store_select_only(id_list)
    \/ store_deselect_all

SpecStore == Init /\ [][NextStore]_vars

(***************************************************************************)
(* The claims.                                                             *)
(***************************************************************************)
RowsOf(df) == {df.rows[i] : i \in 1 .. Len(df.rows)}

KeysOf(df, col) == {PyStr(df.rows[i][col]) : i \in 1 .. Len(df.rows)}

Ascending(df, col) ==
    \A i, j \in 1 .. Len(df.rows) : i < j => df.rows[i][col].n < df.rows[j][col].n

\* C1: a successful export of contacts holds exactly the rows of the original
\* (unfiltered) contact frame whose ID is in the global contact selection,
\* one row per ID, whatever the filter shows at export time.
C1_ExportIsGlobalSelection ==
    phase = "exported" =>
        LET out == selected_contacts_df.rows
            orig == original_contacts_df.rows
        IN  /\ selected_contacts_df.present <=> contact_selection # {}
            /\ \A i \in 1 .. Len(out) :
                   /\ PyStr(out[i]["ID"]) \in contact_selection
                   /\ out[i] \in RowsOf(original_contacts_df)
            /\ \A j \in 1 .. Len(orig) :
                   PyStr(orig[j]["ID"]) \in contact_selection =>
                       \E i \in 1 .. Len(out) : out[i]["ID"] = orig[j]["ID"]
            /\ \A i, k \in 1 .. Len(out) : out[i]["ID"] = out[k]["ID"] => i = k

\* An export that holds a contact the filter hides at export time.
C1_Witness ==
    /\ phase = "exported"
    /\ selected_contacts_df.present
    /\ \E r \in RowsOf(selected_contacts_df) : r \notin RowsOf(contacts_df)

\* C2: in every state the contact selection holds at most MAX_CONTACTS ids,
\* while Select All Visible on channels selects every visible channel and no
\* channel action is answered with the limit dialog.
C2_ContactSelectionBounded ==
    /\ Cardinality(contact_selection) <= MAX_CONTACTS
    /\ event.op = "select_all_channels" =>
           KeysOf(channels_df, "Channel Number") \subseteq channel_selection
    /\ event.op \in {"select_all_channels", "toggle_channel_selection"} =>
           messagebox = ""

\* Select All Visible on contacts stopped at the limit with rows left over.
C2_Witness ==
    /\ event.op = "select_all_contacts"
    /\ Cardinality(contact_selection) = MAX_CONTACTS
    /\ ~(KeysOf(contacts_df, "ID") \subseteq contact_selection)

\* C3: no selection key carries a float artifact: every selected key is the
\* literal of an integer, so that int() gives back the native key at export.
C3_KeysAreIntegerLiterals ==
    \A id_str \in contact_selection \cup channel_selection : IsIntLiteral(id_str)

\* C4: the exported contact rows are ascending by ID and the exported channel
\* rows ascending by Channel Number.
C4_ExportAscending ==
    phase = "exported" =>
        /\ Ascending(selected_contacts_df, "ID")
        /\ Ascending(selected_channels_df, "Channel Number")

\* C5: a filter change leaves the original frames and both selections as they
\* were (and the files, the export state and the other tab's view): it
\* replaces only the filtered view of its tab.
C5_FilterChangesOnlyTheView ==
    [][/\ event'.op \in {"filter_contacts", "filter_channels"} =>
              UNCHANGED <<phase, fileVars, originalVars, contact_selection,
                          channel_selection, exportVars>>
       /\ event'.op = "filter_contacts" => UNCHANGED channelViewVars
       /\ event'.op = "filter_channels" => UNCHANGED contactViewVars]_vars

\* A filter change that hid a selected contact.
C5_Witness ==
    /\ event.op = "filter_contacts"
    /\ contacts_df # original_contacts_df
    /\ \E id_str \in contact_selection : id_str \notin KeysOf(contacts_df, "ID")

\* C6: a filter step that arrives at type "All" with an empty search shows
\* the original frame, rows and order, and the selected-in-view set is then
\* the selection held before the step (filter steps keep the selection, C5,
\* so this is the selection held when filtering began).
C6_UnfilterRestores ==
    [][/\ (/\ event'.op = "filter_contacts"
           /\ contacts_search_var' = <<>>
           /\ contacts_filter_var' = "All") =>
              /\ contacts_df' = original_contacts_df
              /\ get_selected_from_filtered(contact_selection',
                     Column(contacts_df', "ID")) = contact_selection
       /\ (/\ event'.op = "filter_channels"
           /\ channels_search_var' = <<>>
           /\ channels_filter_var' = "All") =>
              /\ channels_df' = original_channels_df
              /\ get_selected_from_filtered(channel_selection',
                     Column(channels_df', "Channel Number")) = channel_selection
      ]_vars

\* The contacts view back at "All" and no search, with a selection held.
C6_Witness ==
    /\ event.op = "filter_contacts"
    /\ contacts_search_var = <<>>
    /\ contacts_filter_var = "All"
    /\ Len(contacts_df.rows) > 1
    /\ contact_selection # {}

\* C7: a toggle of an unselected contact with MAX_CONTACTS ids selected is
\* rejected with the selection unchanged; every other toggle goes through,
\* whatever was rejected before.
C7_LimitRejectionPerCall ==
    [][event'.op = "toggle_contact_selection" =>
          IF /\ event'.arg \notin contact_selection
             /\ Cardinality(contact_selection) >= MAX_CONTACTS
          THEN /\ contact_selection' = contact_selection
               /\ messagebox' = "Limit Reached"
          ELSE /\ contact_selection' =
                      toggle_selection(contact_selection, event'.arg)
               /\ messagebox' = ""]_vars

\* A contact selected by a toggle after an earlier toggle was rejected.
C7_Witness ==
    /\ limit_hit
    /\ event.op = "toggle_contact_selection"
    /\ messagebox = ""
    /\ event.arg \in contact_selection

\* C8: select_all of the store, applied to the contact store, never leaves
\* more than MAX_CONTACTS ids in it.
C8_StoreSelectAllBounded ==
    event.op = "select_all" => Cardinality(contact_selection) <= MAX_CONTACTS

\* C9: Import Selected with both selections empty shows "No Selection",
\* writes no output file, leaves the editor open and leaves the selections
\* and the frames as they were.
C9_NothingSelectedRejected ==
    [][(/\ event'.op = "import_selected"
        /\ contact_selection = {}
        /\ channel_selection = {}) =>
           /\ messagebox' = "No Selection"
           /\ phase' = "editor"
           /\ UNCHANGED <<exportVars, editorVars, fileVars>>]_vars

\* The rejected export: the editor is open and the output paths untouched.
C9_Witness ==
    /\ event.op = "import_selected"
    /\ messagebox = "No Selection"
    /\ phase = "editor"
    /\ Contacts_csv = PreExisting
    /\ Channels_csv = PreExisting

\* C10: a TYT contact row whose Call Type is neither 1 nor 2 makes the
\* conversion fail instead of yielding a record with no ID Type; Call Type 1
\* maps to Group and Call Type 2 to Private.
C10_UnmappedCallTypeSurfaced ==
    (phase = "editor" /\ contacts_file.cols = TytContactCols) =>
        \A i \in 1 .. Len(contacts_file.rows) :
            LET t == contacts_file.rows[i]["Call Type"]
            IN  /\ t \notin {1, 2} => ~original_contacts_df.present
                /\ original_contacts_df.present =>
                       original_contacts_df.rows[i]["ID Type"] =
                           (IF t = 1 THEN "Group" ELSE "Private")

\* C11: every contact frame the mapping stage produces, from a TYT or from a
\* DC9AL file, has IDs greater than 0 and no ID twice.
C11_MappedIdsPositiveUnique ==
    (event.op = "convert_files" /\ original_contacts_df.present) =>
        LET out == original_contacts_df.rows
        IN  /\ \A i \in 1 .. Len(out) : out[i]["ID"].n > 0
            /\ \A i, j \in 1 .. Len(out) :
                   out[i]["ID"].n = out[j]["ID"].n => i = j

\* The indices of the DC9AL input rows the mapping is to keep, ascending:
\* Radio ID is a number above 0 that no earlier row carries.
Dc9alKept(rows) ==
    {i \in 1 .. Len(rows) :
        /\ IsIntLiteral(rows[i]["Radio ID"])
        /\ PyInt(rows[i]["Radio ID"]) > 0
        /\ \A j \in 1 .. (i - 1) : rows[j]["Radio ID"] # rows[i]["Radio ID"]}

\* C12: the DC9AL mapping gives one record per kept input row, in input
\* order, with that row's Radio ID as ID, ID Type Private and TS Override
\* "None"; with no row kept the result is an empty frame, not a failure.
C12_Dc9alKeepsFirstValidRows ==
    (event.op = "convert_files" /\ contacts_file.readable
         /\ contacts_file.cols = Dc9alCols) =>
        LET in == contacts_file.rows
            out == original_contacts_df.rows
            kept == Dc9alKept(in)
        IN  /\ original_contacts_df.present
            /\ phase = "editor"
            /\ Len(out) = Cardinality(kept)
            /\ \A k \in 1 .. Len(out) :
                   \E i \in kept :
                       /\ Cardinality({j \in kept : j <= i}) = k
                       /\ out[k]["ID"].n = PyInt(in[i]["Radio ID"])
                       /\ out[k]["ID Type"] = "Private"
                       /\ out[k]["TS Override"] = "None"

\* A DC9AL file whose first row is dropped and whose last row is kept.
C12_Witness ==
    /\ event.op = "convert_files"
    /\ contacts_file.cols = Dc9alCols
    /\ Len(contacts_file.rows) = MaxMapRows
    /\ 1 \notin Dc9alKept(contacts_file.rows)
    /\ Len(original_contacts_df.rows) = 1
    /\ original_contacts_df.rows[1]["ID"].n =
           PyInt(contacts_file.rows[MaxMapRows]["Radio ID"])

\* C13: with Call Type and Call ID both present the TYT mapper runs, whatever
\* else is present; otherwise with Radio ID and Callsign both present the
\* DC9AL mapper runs; otherwise there is no contact frame.
C13_DialectByPriority ==
    (event.op = "convert_files" /\ contacts_file.readable) =>
        LET cols == contacts_file.cols
            in == contacts_file.rows
            out == original_contacts_df.rows
        IN  IF {"Call Type", "Call ID"} \subseteq cols
            THEN /\ original_contacts_df.present <=> "Contact Name" \in cols
                 /\ original_contacts_df.present =>
                        /\ Len(out) = Len(in)
                        /\ \A i \in 1 .. Len(in) :
                               /\ out[i]["ID"] = IntCell(in[i]["Call ID"])
                               /\ out[i]["Contact Name"] = in[i]["Contact Name"]
            ELSE IF {"Radio ID", "Callsign"} \subseteq cols
            THEN /\ original_contacts_df.present <=> "Name" \in cols
                 /\ \A k \in 1 .. Len(out) :
                        /\ out[k]["ID Type"] = "Private"
                        /\ \E i \in 1 .. Len(in) :
                               /\ IsIntLiteral(in[i]["Radio ID"])
                               /\ out[k]["ID"].n = PyInt(in[i]["Radio ID"])
            ELSE /\ ~original_contacts_df.present
                 /\ ~original_channels_df.present =>
                        /\ phase = "main"
                        /\ messagebox = "Error: No valid data to preview!"

\* A file with the columns of both dialects, converted by the TYT mapper.
C13_Witness ==
    /\ event.op = "convert_files"
    /\ contacts_file.cols = TytContactCols \cup Dc9alCols
    /\ original_contacts_df.present
    /\ original_contacts_df.rows[1]["ID"] = IntCell(MapBothRow["Call ID"])
    /\ original_contacts_df.rows[1]["ID"].n # PyInt(MapBothRow["Radio ID"])

\* The label a tab shows for in_filter selected rows in view and total
\* selected ids: both numbers whenever the total is the larger.
CountsReported(label, in_filter, total) ==
    /\ label.n = in_filter
    /\ total > in_filter => label.total = total

\* C14: while the editor is open its labels give the number of records in
\* each filtered view, the number of selected ids in each view, the size of
\* each selection, and both numbers where the selection is the larger.
C14_CountsMatchView ==
    phase = "editor" =>
        /\ contacts_tree =>
              /\ labels.contacts_filter_label.n = Len(contacts_df.rows)
              /\ CountsReported(labels.contacts_selected_label,
                     Cardinality(contact_selection \cap KeysOf(contacts_df, "ID")),
                     Cardinality(contact_selection))
        /\ channels_tree =>
              /\ labels.channels_filter_label.n = Len(channels_df.rows)
              /\ CountsReported(labels.channels_selected_label,
                     Cardinality(channel_selection
                                 \cap KeysOf(channels_df, "Channel Number")),
                     Cardinality(channel_selection))
        /\ bottom_buttons =>
              /\ labels.selection_label.n = Cardinality(contact_selection)
              /\ labels.selection_label.total = Cardinality(channel_selection)

\* C15: in a converted channel frame Bandwidth is "25" for the rows of mode 1
\* and empty for the others; Colour Code is the text of Color Code for the
\* rows of mode 2 with Color Code above 0 and empty for the others; Timeslot
\* is the same from Repeater Slot.
C15_ChannelFieldsByMode ==
    (event.op = "convert_files" /\ channels_file.readable) =>
        LET in == channels_file.rows
            out == original_channels_df.rows
        IN  /\ original_channels_df.present
            /\ Len(out) = Len(in)
            /\ \A i \in 1 .. Len(in) :
                   /\ out[i]["Bandwidth (kHz)"] =
                          (IF in[i]["Channel Mode"] = 1 THEN "25" ELSE "")
                   /\ out[i]["Colour Code"] =
                          (IF in[i]["Channel Mode"] = 2 /\ in[i]["Color Code"] > 0
                           THEN ToString(in[i]["Color Code"]) ELSE "")
                   /\ out[i]["Timeslot"] =
                          (IF in[i]["Channel Mode"] = 2 /\ in[i]["Repeater Slot"] > 0
                           THEN ToString(in[i]["Repeater Slot"]) ELSE "")

\* An Analogue row with a Color Code, next to a Digital row with a Colour
\* Code and no Timeslot.
C15_Witness ==
    /\ event.op = "convert_files"
    /\ Len(original_channels_df.rows) = 2
    /\ channels_file.rows[1]["Channel Mode"] = 1
    /\ channels_file.rows[1]["Color Code"] > 0
    /\ original_channels_df.rows[1]["Bandwidth (kHz)"] = "25"
    /\ original_channels_df.rows[1]["Colour Code"] = ""
    /\ original_channels_df.rows[2]["Colour Code"] = "1"
    /\ original_channels_df.rows[2]["Timeslot"] = ""

\* C16: a converted channel frame numbers its rows 1..n in input order, and
\* row i carries the name, the mode and the frequencies of input row i.
C16_ChannelNumbersSequential ==
    (event.op = "convert_files" /\ channels_file.readable) =>
        LET in == channels_file.rows
            out == original_channels_df.rows
        IN  /\ Len(out) = Len(in)
            /\ \A i \in 1 .. Len(in) :
                   /\ out[i]["Channel Number"] = IntCell(i)
                   /\ out[i]["Channel Name"] = in[i]["Channel Name"]
                   /\ out[i]["Rx Frequency"] = in[i]["RX Frequency(MHz)"]
                   /\ out[i]["Tx Frequency"] = in[i]["TX Frequency(MHz)"]
                   /\ in[i]["Channel Mode"] = 1 => out[i]["Channel Type"] = "Analogue"
                   /\ in[i]["Channel Mode"] = 2 => out[i]["Channel Type"] = "Digital"
            /\ \A i, j \in 1 .. Len(out) :
                   out[i]["Channel Number"] = out[j]["Channel Number"] => i = j

\* Two input rows that differ in name and mode, numbered 1 and 2.
C16_Witness ==
    /\ event.op = "convert_files"
    /\ Len(original_channels_df.rows) = 2
    /\ channels_file.rows[1]["Channel Name"] # channels_file.rows[2]["Channel Name"]
    /\ original_channels_df.rows[1]["Channel Type"] = "Analogue"
    /\ original_channels_df.rows[2]["Channel Type"] = "Digital"
    /\ original_channels_df.rows[2]["Channel Number"] = IntCell(2)

\* C17: a toggle of id flips the membership of id and of no other id, and a
\* second toggle of id on the store it leaves gives back the store it found.
C17_ToggleIsInvolution ==
    [][event'.op = "toggle_selection" =>
          /\ (event'.arg \in contact_selection') <=>
                 (event'.arg \notin contact_selection)
          /\ contact_selection' \ {event'.arg} = contact_selection \ {event'.arg}
          /\ toggle_selection(contact_selection', event'.arg) = contact_selection
      ]_vars

\* A toggle that took its id out of a store that holds other ids.
C17_Witness ==
    /\ event.op = "toggle_selection"
    /\ event.arg \notin contact_selection
    /\ contact_selection # {}

\* C18: each output path holds what it held before the export or the whole
\* of the exported frame, never a part of it.
C18_NoPartialOutput ==
    /\ Contacts_csv \in {PreExisting, CompleteFile(selected_contacts_df.rows)}
    /\ Channels_csv \in {PreExisting, CompleteFile(selected_channels_df.rows)}

\* The contact files the mapping stage gives up on.
FailingContactFiles == {UnreadableFile, CsvFile({"Name"}, <<>>)}

\* C19: with both files chosen, when one conversion fails and the other
\* succeeds the editor opens on the frame of the one that succeeded, with
\* its tab and the bottom buttons and without an error; when every chosen
\* file fails there is no editor and the error dialog is shown.
C19_OneFailureKeepsTheOther ==
    (event.op = "convert_files" /\ contacts_file.path # ""
         /\ channels_file.path # "") =>
        LET cfail == contacts_file \in FailingContactFiles
            cok == contacts_file.readable /\ contacts_file.cols \in {TytContactCols, Dc9alCols}
            chfail == ~channels_file.readable
        IN  /\ (cfail /\ ~chfail) =>
                   /\ phase = "editor"
                   /\ original_contacts_df = NoneDf
                   /\ original_channels_df.present
                   /\ Len(original_channels_df.rows) = Len(channels_file.rows)
                   /\ channels_tree /\ ~contacts_tree /\ bottom_buttons
                   /\ messagebox = ""
            /\ (cok /\ chfail) =>
                   /\ phase = "editor"
                   /\ original_channels_df = NoneDf
                   /\ original_contacts_df.present
                   /\ contacts_tree /\ ~channels_tree /\ bottom_buttons
                   /\ messagebox = ""
            /\ (cfail /\ chfail) =>
                   /\ phase = "main"
                   /\ messagebox = "Error: No valid data to preview!"

\* The editor open on the channels of a run whose contact file failed.
C19_Witness ==
    /\ event.op = "convert_files"
    /\ contacts_file \in FailingContactFiles
    /\ phase = "editor"
    /\ original_channels_df.rows # <<>>
    /\ ~original_contacts_df.present

\* C20: a toggle of a visible channel row flips the membership of that row's
\* Channel Number and of no other channel.
C20_ChannelToggleHitsItsRow ==
    [][event'.op = "toggle_channel_selection" =>
          /\ (event'.arg \in channel_selection') <=>
                 (event'.arg \notin channel_selection)
          /\ channel_selection' \ {event'.arg} = channel_selection \ {event'.arg}
      ]_vars

\* The ids of the first k rows of the contacts view.
VisiblePrefix(k) == {PyStr(contacts_df.rows[i]["ID"]) : i \in 1 .. k}

\* The lengths of the prefixes of the view that, added to the selection,
\* keep it at or below MAX_CONTACTS.
FittingPrefixes ==
    {k \in 0 .. Len(contacts_df.rows) :
        Cardinality(contact_selection \cup VisiblePrefix(k)) <= MAX_CONTACTS}

\* C21: Select All Visible on contacts keeps every id selected before it,
\* adds no id from outside the view, and leaves the old selection united
\* with the longest prefix of the view that fits below the limit.
C21_SelectAllAdditiveTruncating ==
    [][event'.op = "select_all_contacts" =>
          /\ contact_selection \subseteq contact_selection'
          /\ contact_selection' \subseteq
                 contact_selection \cup VisiblePrefix(Len(contacts_df.rows))
          /\ \E k \in FittingPrefixes :
                 /\ \A j \in FittingPrefixes : j <= k
                 /\ contact_selection' = contact_selection \cup VisiblePrefix(k)
      ]_vars

\* Select All Visible that kept a selected id the filter hides and stopped
\* at the limit before the end of the view.
C21_Witness ==
    /\ event.op = "select_all_contacts"
    /\ Cardinality(contact_selection) = MAX_CONTACTS
    /\ \E id_str \in contact_selection : id_str \notin KeysOf(contacts_df, "ID")
    /\ \E id_str \in KeysOf(contacts_df, "ID") : id_str \notin contact_selection
    /\ \E id_str \in KeysOf(contacts_df, "ID") : id_str \in contact_selection

\* C22: after an export "Success" is shown only when every output file that
\* was attempted holds the whole of its frame.
C22_SuccessOnlyIfSaved ==
    (phase = "exported" /\ messagebox = "Success") =>
        /\ selected_contacts_df.present =>
               Contacts_csv = CompleteFile(selected_contacts_df.rows)
        /\ selected_channels_df.present =>
               Channels_csv = CompleteFile(selected_channels_df.rows)

\* C23: an export writes as many contact rows as the "Ready to import" label
\* showed for contacts before it, one row for every selected id, and the
\* same for channels.
C23_ExportedCountIsReadyCount ==
    [][(event'.op = "import_selected" /\ phase' = "exported") =>
          /\ Len(selected_contacts_df'.rows) = labels.selection_label.n
          /\ Len(selected_channels_df'.rows) = labels.selection_label.total
          /\ \A id_str \in contact_selection :
                 Cardinality({i \in 1 .. Len(selected_contacts_df'.rows) :
                     PyStr(selected_contacts_df'.rows[i]["ID"]) = id_str}) = 1
          /\ \A id_str \in channel_selection :
                 Cardinality({i \in 1 .. Len(selected_channels_df'.rows) :
                     PyStr(selected_channels_df'.rows[i]["Channel Number"])
                         = id_str}) = 1
          /\ Contacts_csv'.kind = "complete" =>
                 Len(Contacts_csv'.rows) = labels.selection_label.n
          /\ Channels_csv'.kind = "complete" =>
                 Len(Channels_csv'.rows) = labels.selection_label.total
      ]_vars

\* A saved export of a selected contact whose ID the original frame holds
\* on more than one row.
C23_Witness ==
    /\ phase = "exported"
    /\ Contacts_csv.kind = "complete"
    /\ Len(Contacts_csv.rows) = Cardinality(contact_selection)
    /\ \E i, j \in 1 .. Len(original_contacts_df.rows) :
           /\ i # j
           /\ original_contacts_df.rows[i]["ID"] = original_contacts_df.rows[j]["ID"]
           /\ PyStr(original_contacts_df.rows[i]["ID"]) \in contact_selection

\* C24: Select All Visible on contacts that leaves a visible id unselected,
\* the store being full, shows the limit notice in the same action.
C24_TruncationSurfaced ==
    [][(/\ event'.op = "select_all_contacts"
        /\ \E id_str \in VisiblePrefix(Len(contacts_df.rows)) :
               id_str \notin contact_selection') =>
           messagebox' = "Limit Reached"]_vars

====
